---- MODULE Spec2Model ----
(***************************************************************************)
(* DateCollator (src/src/DateCollator.js): a comparator of two values by   *)
(* an ordered list of date parts, in the local or the UTC view of a Date.  *)
(*                                                                         *)
(* A Date holds a time value: an instant, here the pair of its UTC day     *)
(* number since 1970-01-01 and the millisecond within that day (the        *)
(* product does not fit TLC's 32-bit integers).  The accessors of Date     *)
(* (getFullYear, getUTCHours, toString, ...) are modelled by the           *)
(* arithmetic ECMAScript defines for them.  Strings are sequences of       *)
(* UTF-16 code units, compared as JavaScript's < and > compare them.       *)
(***************************************************************************)
EXTENDS Integers, Sequences, FiniteSets, TLC

VARIABLES
    tz,         \* the environment's time zone (fixed for a run)
    objs,       \* heap: the options objects, by reference (index)
    arrs,       \* heap: the arrays, by reference (index)
    collators,  \* the constructed instances: hidden.options of each (a reference)
    built,      \* history: the configuration each instance was constructed with, by value
    writes,     \* number of caller writes to the heap so far
    last        \* the call that returned or threw most recently

vars == <<tz, objs, arrs, collators, built, writes, last>>

----------------------------------------------------------------------------
(* Bounds of the model *)

\* longest dateSensitivity array a caller passes in
MaxLen == 2
\* most options objects allocated in a lifetime run
MaxObjects == 2
\* most instances constructed in a lifetime run
MaxCollators == 2
\* most writes of the caller to objects it passed in
MaxWrites == 1

----------------------------------------------------------------------------
(* Time values *)

msPerDay == 86400000
msPerHour == 3600000
msPerMinute == 60000
msPerSecond == 1000

Instant(day, ms) == [day |-> day, ms |-> ms]

\* t + minutes, carried into the day number
AddMinutes(t, minutes) ==
    LET m == t.ms + minutes * msPerMinute
    IN  Instant(t.day + (m \div msPerDay), m % msPerDay)

\* t earlier than u
Earlier(t, u) == t.day < u.day \/ (t.day = u.day /\ t.ms < u.ms)

\* The offset, in minutes, of local time from UTC at instant t in zone z:
\* the daylight offset inside one of the zone's daylight spans, else the
\* standard offset.
LocalTZA(z, t) ==
    IF \E s \in z.spans : ~Earlier(t, s[1]) /\ Earlier(t, s[2])
    THEN z.dst ELSE z.std

LocalTime(z, t) == AddMinutes(t, LocalTZA(z, t))

\* Year, month (0-based) and day of month of a day number (proleptic
\* Gregorian calendar, as YearFromTime, MonthFromTime and DateFromTime).
CivilFromDay(day) ==
    LET z == day + 719468
        era == z \div 146097
        doe == z - era * 146097
        yoe == (doe - (doe \div 1460) + (doe \div 36524) - (doe \div 146096)) \div 365
        doy == doe - (365 * yoe + (yoe \div 4) - (yoe \div 100))
        mp == (5 * doy + 2) \div 153
        d == doy - ((153 * mp + 2) \div 5) + 1
        m == IF mp < 10 THEN mp + 3 ELSE mp - 9
        y == yoe + era * 400 + (IF m <= 2 THEN 1 ELSE 0)
    IN  [year |-> y, month |-> m - 1, date |-> d]

YearFromTime(t) == CivilFromDay(t.day).year
MonthFromTime(t) == CivilFromDay(t.day).month
DateFromTime(t) == CivilFromDay(t.day).date
WeekDay(t) == (t.day + 4) % 7
HourFromTime(t) == t.ms \div msPerHour
MinFromTime(t) == (t.ms \div msPerMinute) % 60
SecFromTime(t) == (t.ms \div msPerSecond) % 60
msFromTime(t) == t.ms % msPerSecond

Sign(n) == IF n < 0 THEN -1 ELSE IF n > 0 THEN 1 ELSE 0

----------------------------------------------------------------------------
(* Strings: sequences of UTF-16 code units *)

\* "Invalid Date", "null", "undefined", "[object Object]"
StrInvalidDate == <<73, 110, 118, 97, 108, 105, 100, 32, 68, 97, 116, 101>>
StrNull == <<110, 117, 108, 108>>
StrUndefined == <<117, 110, 100, 101, 102, 105, 110, 101, 100>>
StrObject == <<91, 111, 98, 106, 101, 99, 116, 32, 79, 98, 106, 101, 99, 116, 93>>

\* "Sun" .. "Sat", by WeekDay
DayNames ==
    << <<83, 117, 110>>, <<77, 111, 110>>, <<84, 117, 101>>, <<87, 101, 100>>,
       <<84, 104, 117>>, <<70, 114, 105>>, <<83, 97, 116>> >>

\* "Jan" .. "Dec", by MonthFromTime
MonthNames ==
    << <<74, 97, 110>>, <<70, 101, 98>>, <<77, 97, 114>>, <<65, 112, 114>>,
       <<77, 97, 121>>, <<74, 117, 110>>, <<74, 117, 108>>, <<65, 117, 103>>,
       <<83, 101, 112>>, <<79, 99, 116>>, <<78, 111, 118>>, <<68, 101, 99>> >>

Digit(n) == 48 + n
Pad2(n) == <<Digit((n \div 10) % 10), Digit(n % 10)>>

RECURSIVE Decimal(_)
Decimal(n) == IF n < 10 THEN <<Digit(n)>> ELSE Decimal(n \div 10) \o <<Digit(n % 10)>>

RECURSIVE PadLeft(_, _)
PadLeft(s, width) == IF Len(s) >= width THEN s ELSE PadLeft(<<Digit(0)>> \o s, width)

Abs(n) == IF n < 0 THEN -n ELSE n

\* Date.prototype.toString of a valid Date: "Www Mmm dd yyyy hh:mm:ss GMT+hhmm"
\* in local time (the zone's name, which an engine may append in
\* parentheses, is left out: it comes after everything modelled here).
DateToString(z, t) ==
    LET lt == LocalTime(z, t)
        yv == YearFromTime(lt)
        off == LocalTZA(z, t)
    IN  DayNames[WeekDay(lt) + 1] \o <<32>> \o MonthNames[MonthFromTime(lt) + 1] \o <<32>>
        \o Pad2(DateFromTime(lt)) \o <<32>>
        \o (IF yv >= 0 THEN <<>> ELSE <<45>>) \o PadLeft(Decimal(Abs(yv)), 4) \o <<32>>
        \o Pad2(HourFromTime(lt)) \o <<58>> \o Pad2(MinFromTime(lt)) \o <<58>>
        \o Pad2(SecFromTime(lt)) \o <<32, 71, 77, 84>>
        \o (IF off >= 0 THEN <<43>> ELSE <<45>>)
        \o Pad2(Abs(off) \div 60) \o Pad2(Abs(off) % 60)

\* a lower-case letter for an upper-case one
FoldCase(c) == IF c >= 65 /\ c <= 90 THEN c + 32 ELSE c

\* StrLess as a collation that ignores the case of letters would order
\* (what localeCompare does, and < does not).
RECURSIVE StrLessIgnoringCase(_, _)
StrLessIgnoringCase(a, b) ==
    IF b = <<>> THEN FALSE
    ELSE IF a = <<>> THEN TRUE
    ELSE IF FoldCase(Head(a)) # FoldCase(Head(b)) THEN FoldCase(Head(a)) < FoldCase(Head(b))
    ELSE StrLessIgnoringCase(Tail(a), Tail(b))

\* a < b as JavaScript compares two strings: by the first code unit that
\* differs, a proper prefix being the smaller
RECURSIVE StrLess(_, _)
StrLess(a, b) ==
    IF b = <<>> THEN FALSE
    ELSE IF a = <<>> THEN TRUE
    ELSE IF Head(a) # Head(b) THEN Head(a) < Head(b)
    ELSE StrLess(Tail(a), Tail(b))

----------------------------------------------------------------------------
(* The values compare is called with *)

NoInstant == Instant(0, 0)
DateValue(t) == [kind |-> "Date", t |-> t]
InvalidDate == [kind |-> "InvalidDate", t |-> NoInstant]
Null == [kind |-> "null", t |-> NoInstant]
Undefined == [kind |-> "undefined", t |-> NoInstant]
\* a plain object {} and an object with no prototype (Object.create(null)),
\* which has no conversion to a string
PlainObject == [kind |-> "object", t |-> NoInstant]
BareObject == [kind |-> "bareObject", t |-> NoInstant]

\* leftDate instanceof Date && !Number.isNaN( leftDate.getTime())
IsValidDate(v) == v.kind = "Date"

\* String( v ) can be taken
HasString(v) == v.kind # "bareObject"

\* String( v )
StringOf(z, v) ==
    CASE v.kind = "Date" -> DateToString(z, v.t)
      [] v.kind = "InvalidDate" -> StrInvalidDate
      [] v.kind = "null" -> StrNull
      [] v.kind = "undefined" -> StrUndefined
      [] v.kind = "object" -> StrObject

----------------------------------------------------------------------------
(* The heap: options objects and arrays, held by reference *)

\* A property value: undefined (the property is absent), null, a string, a
\* number, a boolean, a plain object, or a reference to an array of arrs.
Val(k, str, ref) == [k |-> k, s |-> str, ref |-> ref]
VUndefined == Val("undefined", "", 0)
VNull == Val("null", "", 0)
VString(str) == Val("string", str, 0)
VZero == Val("number", "0", 0)
VFalse == Val("boolean", "false", 0)
VObject == Val("object", "", 0)
VArray(ref) == Val("array", "", ref)
\* a reference to an options object of objs
VOptions(ref) == Val("options", "", ref)

\* JavaScript's ToBoolean, which decides `value || fallback`
Truthy(v) ==
    ~ \/ v.k \in {"undefined", "null"}
      \/ v = VZero
      \/ v = VFalse
      \/ v = VString("")

\* Array.isArray( v )
IsArray(v) == v.k = "array"

\* static get DateSensitivity(): Object.values of it
DateSensitivity ==
    {"era", "year", "month", "weekday", "day", "dayPeriod", "hour", "minute",
     "second", "fractionalSecond"}

\* static get DateUsage(): Object.values of it
DateUsage == {"local", "utc"}

\* DefaultDateSensitivity cut short: a default that stops at the second.
DefaultWithoutFraction == <<"year", "month", "day", "hour", "minute", "second">>

\* the default of options.dateSensitivity
DefaultDateSensitivity ==
    <<"year", "month", "day", "hour", "minute", "second", "fractionalSecond">>

\* the default of options.dateUsage
DefaultDateUsage == "local"

Return(value) == [kind |-> "return", value |-> value, error |-> "", cites |-> ""]
Throw(error, cites) == [kind |-> "throw", value |-> 0, error |-> error, cites |-> cites]

\* `this.hidden.options = this.hidden.options || {}`: the caller's object
\* itself when one is passed, else a fresh object (`caller` marks the
\* objects the caller made and holds a reference to, `frozen` the ones it
\* passed to Object.freeze)
OptionsOrFresh(options, O) ==
    IF Truthy(options)
    THEN [objs |-> O, ref |-> options.ref]
    ELSE [objs |-> Append(O, [dateSensitivity |-> VUndefined, dateUsage |-> VUndefined,
                              caller |-> FALSE, frozen |-> FALSE]),
          ref |-> Len(O) + 1]

\* `options.dateSensitivity = options.dateSensitivity || [...]`, written to
\* the object hidden.options refers to
SensitivityOrDefault(O, A, ref) ==
    IF Truthy(O[ref].dateSensitivity)
    THEN [objs |-> O, arrs |-> A]
    ELSE [objs |-> [O EXCEPT ![ref].dateSensitivity = VArray(Len(A) + 1)],
          arrs |-> Append(A, DefaultDateSensitivity)]

\* `options.dateUsage = options.dateUsage || 'local'`
UsageOrDefault(O, ref) ==
    IF Truthy(O[ref].dateUsage)
    THEN O
    ELSE [O EXCEPT ![ref].dateUsage = VString(DefaultDateUsage)]

\* The error of the second branch of the validation: the message of the
\* RangeError is a template that reads `eachDateSensitivity`, a name bound
\* only inside the callback of `some` above it, so evaluating the argument
\* of `new RangeError(...)` throws a ReferenceError and no RangeError is
\* ever made.
SensitivityRangeError(a) == Throw("ReferenceError", "eachDateSensitivity")

\* The validation of the constructor, on the object as defaulted.
Validate(O, A, ref) ==
    LET ds == O[ref].dateSensitivity
        du == O[ref].dateUsage
    IN  IF ~IsArray(ds)
        THEN Throw("TypeError", "dateSensitivity")
        ELSE IF \E i \in 1..Len(A[ds.ref]) : A[ds.ref][i] \notin DateSensitivity
        THEN SensitivityRangeError(A[ds.ref])
        ELSE IF ~(du.k = "string" /\ du.s \in DateUsage)
        THEN Throw("RangeError", du.s)
        ELSE Return(ref)

\* new DateCollator( _locales, options ) on heap (O, A): the heap after it,
\* and the reference hidden.options holds or the error thrown
\* The body of a class is strict code, so the assignment of line 63 to a
\* property of a frozen object throws a TypeError, whatever is assigned.
Constructor(options, O, A) ==
    LET h == OptionsOrFresh(options, O)
        d == SensitivityOrDefault(h.objs, A, h.ref)
        O3 == UsageOrDefault(d.objs, h.ref)
    IN  IF h.objs[h.ref].frozen
        THEN [objs |-> O, arrs |-> A, out |-> Throw("TypeError", "read only")]
        ELSE [objs |-> O3, arrs |-> d.arrs, out |-> Validate(O3, d.arrs, h.ref)]

----------------------------------------------------------------------------
(* compare *)

\* the inner switch of case 'local': the accessors getDate, getHours, ...
LocalPart(part, z, t) ==
    LET lt == LocalTime(z, t)
    IN  CASE part = "day" -> DateFromTime(lt)
          [] part = "dayPeriod" -> HourFromTime(lt) \div 12
          [] part = "era" -> Sign(YearFromTime(lt))
          [] part = "hour" -> HourFromTime(lt)
          [] part = "minute" -> MinFromTime(lt)
          [] part = "second" -> SecFromTime(lt)
          [] part = "month" -> MonthFromTime(lt)
          [] part = "weekday" -> WeekDay(lt)
          [] part = "year" -> YearFromTime(lt)
          [] part = "fractionalSecond" -> msFromTime(lt)

\* the inner switch of case 'utc': the accessors getUTCDate, getUTCHours, ...
UTCPart(part, t) ==
    CASE part = "day" -> DateFromTime(t)
      [] part = "dayPeriod" -> HourFromTime(t) \div 12
      [] part = "era" -> Sign(YearFromTime(t))
      [] part = "hour" -> HourFromTime(t)
      [] part = "minute" -> MinFromTime(t)
      [] part = "second" -> SecFromTime(t)
      [] part = "month" -> MonthFromTime(t)
      [] part = "weekday" -> WeekDay(t)
      [] part = "year" -> YearFromTime(t)
      [] part = "fractionalSecond" -> msFromTime(t)

\* PartPair with the accessor families mixed up: the local branch reads
\* the right date with the UTC accessors.
PartPairMixed(usage, part, z, l, r) ==
    CASE usage = "local" -> <<LocalPart(part, z, l), UTCPart(part, r)>>
      [] usage = "utc" -> <<UTCPart(part, l), UTCPart(part, r)>>

\* PartPair with the utc branch reading the right date with the local
\* accessors.
PartPairUtcMixed(usage, part, z, l, r) ==
    CASE usage = "local" -> <<LocalPart(part, z, l), LocalPart(part, z, r)>>
      [] usage = "utc" -> <<UTCPart(part, l), LocalPart(part, z, r)>>

\* the callback of `map`: the pair of one part of the two dates
PartPair(usage, part, z, l, r) ==
    CASE usage = "local" -> <<LocalPart(part, z, l), LocalPart(part, z, r)>>
      [] usage = "utc" -> <<UTCPart(part, l), UTCPart(part, r)>>

\* the part pairs of every element of dateSensitivity, in its order
RECURSIVE PartPairs(_, _, _, _, _)
PartPairs(usage, parts, z, l, r) ==
    IF parts = <<>> THEN <<>>
    ELSE <<PartPair(usage, Head(parts), z, l, r)>> \o PartPairs(usage, Tail(parts), z, l, r)

\* datePartReducer without its guard: the difference is taken anew for
\* every pair, so the last pair decides.
datePartReducerLastWins(difference, partPair) == partPair[1] - partPair[2]

\* the reducer: keeps the first difference that is not zero (its check of
\* typeof difference never fails: the initial value is 0 and every part
\* pair is a pair of numbers)
datePartReducer(difference, partPair) ==
    IF difference = 0 THEN partPair[1] - partPair[2] ELSE difference

\* partPairs.reduce( datePartReducer, initial )
RECURSIVE Reduce(_, _)
Reduce(partPairs, initial) ==
    IF partPairs = <<>> THEN initial
    ELSE Reduce(Tail(partPairs), datePartReducer(initial, Head(partPairs)))

Max(a, b) == IF a >= b THEN a ELSE b
Min(a, b) == IF a <= b THEN a ELSE b

\* Clamp without Math.min: only the lower bound is applied.
ClampBelowOnly(difference) == Max(-1, difference)

\* Math.min( Math.max( -1, difference ), +1 )
Clamp(difference) == Min(Max(-1, difference), 1)

\* the else branch: the order of the two values' strings
StringDifference(leftString, rightString) ==
    IF StrLess(leftString, rightString) THEN -1
    ELSE IF StrLess(rightString, leftString) THEN 1
    ELSE 0

\* The branch of two valid dates, for configuration (sensitivity, usage) as
\* hidden.options holds it now.  Outside what the constructor validated:
\* a dateSensitivity that is no array has no `map`; the callback throws at
\* an element or a usage no switch handles (the message of the latter
\* reads `this.options`, which no instance has).
DatesDifference(sensitivity, A, usage, z, l, r) ==
    IF ~IsArray(sensitivity) THEN Throw("TypeError", "map")
    ELSE LET parts == A[sensitivity.ref]
         IN  IF parts = <<>> THEN Return(Clamp(Reduce(<<>>, 0)))
             ELSE IF ~(usage.k = "string" /\ usage.s \in DateUsage)
             THEN Throw("TypeError", "options")
             ELSE IF \E i \in 1..Len(parts) : parts[i] \notin DateSensitivity
             THEN Throw("Error", "Unhandled")
             ELSE Return(Clamp(Reduce(PartPairs(usage.s, parts, z, l.t, r.t), 0)))

\* compareUnbound, bound to an instance whose hidden.options is object o
compareUnbound(o, A, z, leftDate, rightDate) ==
    IF IsValidDate(leftDate) /\ IsValidDate(rightDate)
    THEN DatesDifference(o.dateSensitivity, A, o.dateUsage, z, leftDate, rightDate)
    ELSE IF ~HasString(leftDate) \/ ~HasString(rightDate)
    THEN Throw("TypeError", "String")
    ELSE Return(Clamp(StringDifference(StringOf(z, leftDate), StringOf(z, rightDate))))

----------------------------------------------------------------------------
(* Inputs *)

\* Time zones: a zone of UTC-5 with daylight time UTC-4 from the second
\* Sunday of March 07:00Z to the first Sunday of November 06:00Z (2020 and
\* 2026), and a zone of UTC+5:30 without daylight time.
ZoneNewYork ==
    [std |-> -300, dst |-> -240,
     spans |-> {<<Instant(18329, 25200000), Instant(18567, 21600000)>>,
                <<Instant(20520, 25200000), Instant(20758, 21600000)>>}]
ZoneKolkata == [std |-> 330, dst |-> 330, spans |-> {}]
Zones == {ZoneNewYork, ZoneKolkata}

\* Instants: 2020-03-23 (a Monday) 13:00Z, 13:00:00.001Z and 15:00Z;
\* 2026-03-23 15:00Z; 2020-03-27 (a Friday) 21:00Z; 2020-11-01 05:30Z and
\* 06:30Z, on either side of the end of daylight time at 06:00Z; a day of
\* year 0 and a day of year -1.
Instants ==
    {Instant(18344, 46800000), Instant(18344, 46800001), Instant(18344, 54000000),
     Instant(20535, 54000000), Instant(18348, 75600000),
     Instant(18567, 19800000), Instant(18567, 23400000),
     Instant(-719362, 43230500), Instant(-719853, 1)}

ValidDates == {DateValue(t) : t \in Instants}

\* every category of value compare can be called with
Values == ValidDates \cup {InvalidDate, Null, Undefined, PlainObject, BareObject}

\* the sequences over S of length at most n
RECURSIVE SeqsUpTo(_, _)
SeqsUpTo(S, n) ==
    IF n = 0 THEN {<<>>}
    ELSE LET shorter == SeqsUpTo(S, n - 1)
         IN  shorter \cup {Append(q, x) : q \in {p \in shorter : Len(p) = n - 1}, x \in S}

\* An options literal { dateSensitivity: ..., dateUsage: ... } allocated on
\* heap (O, A): `ds` is the value of the property when it is no array, and
\* `parts` the elements of the array when it is one.
Literal(isArray, ds, parts, du, O, A) ==
    LET A1 == IF isArray THEN Append(A, parts) ELSE A
        field == IF isArray THEN VArray(Len(A1)) ELSE ds
    IN  [objs |-> Append(O, [dateSensitivity |-> field, dateUsage |-> du, caller |-> TRUE,
                            frozen |-> FALSE]),
         arrs |-> A1,
         ref |-> Len(O) + 1]

\* The configuration hidden.options refers to, by value; `defaulted` tells
\* that the caller gave neither a dateSensitivity nor a dateUsage.
ConfigOf(O, A, ref, defaulted) ==
    [sensitivity |-> IF IsArray(O[ref].dateSensitivity)
                     THEN A[O[ref].dateSensitivity.ref] ELSE <<>>,
     isArray |-> IsArray(O[ref].dateSensitivity),
     usage |-> O[ref].dateUsage,
     defaulted |-> defaulted]

\* `options` is the reference of the options object a constructor call was
\* given, 0 when it was given none
None ==
    [op |-> "none", c |-> 0, options |-> 0, left |-> Null, right |-> Null,
     given |-> [sensitivity |-> <<>>, isArray |-> FALSE, ds |-> VUndefined, usage |-> VUndefined],
     out |-> Return(0)]

----------------------------------------------------------------------------
(* Comparing with one instance *)

\* Init: the state after `new DateCollator( null, options )` returned, for
\* options absent or a literal with any array of DateParts and any usage.
InitOptions ==
    {[isArray |-> FALSE, parts |-> <<>>, du |-> VUndefined, absent |-> TRUE]}
    \cup {[isArray |-> a, parts |-> p, du |-> du, absent |-> FALSE] :
            a \in {TRUE}, p \in SeqsUpTo(DateSensitivity, MaxLen),
            du \in {VUndefined, VString("local"), VString("utc")}}
    \cup {[isArray |-> FALSE, parts |-> <<>>, du |-> du, absent |-> FALSE] :
            du \in {VUndefined, VString("utc")}}

Init ==
    \E z \in Zones, o \in InitOptions :
        LET lit == Literal(o.isArray, VUndefined, o.parts, o.du, <<>>, <<>>)
            new == IF o.absent
                   THEN Constructor(VUndefined, <<>>, <<>>)
                   ELSE Constructor(VOptions(lit.ref), lit.objs, lit.arrs)
        IN  /\ new.out.kind = "return"
            /\ tz = z
            /\ objs = new.objs
            /\ arrs = new.arrs
            /\ collators = <<new.out.value>>
            /\ built = <<ConfigOf(new.objs, new.arrs, new.out.value,
                                  ~o.isArray /\ o.du = VUndefined)>>
            /\ writes = 0
            /\ last = None

\* collator c's compare( l, r ) returns or throws
Compare(c, l, r) ==
    /\ last.op = "none"
    /\ last' = [None EXCEPT !.op = "compare", !.c = c, !.left = l, !.right = r,
                            !.out = compareUnbound(objs[collators[c]], arrs, tz, l, r)]
    /\ UNCHANGED <<tz, objs, arrs, collators, built, writes>>

CompareAny == \E c \in 1..Len(collators), l \in Values, r \in Values : Compare(c, l, r)

\* the caller is done with what the last call returned or threw
Discard ==
    /\ last.op # "none"
    /\ last' = None
    /\ UNCHANGED <<tz, objs, arrs, collators, built, writes>>

Next == CompareAny \/ Discard

Spec == Init /\ [][Next]_vars

----------------------------------------------------------------------------
(* The lifetime of instances: construction from options the caller keeps   *)
(* and may write to, and comparison                                        *)

\* array elements callers pass here: a DatePart and a value that is none
LifeParts == {"hour", "millisecond"}

\* values callers pass as dateSensitivity that are no array: nothing, a
\* single string, 0, false, the empty string, a plain object
LifeNonArrays == {VUndefined, VString("year"), VZero, VFalse, VString(""), VObject}

\* values callers pass as dateUsage
LifeUsages == {VUndefined, VString("utc"), VString("gmt")}

\* values compared here: 2020-03-23 13:00Z and 15:00Z, and null
LifeValues == {DateValue(Instant(18344, 46800000)), DateValue(Instant(18344, 54000000)), Null}

InitLife ==
    /\ tz = ZoneNewYork
    /\ objs = <<>>
    /\ arrs = <<>>
    /\ collators = <<>>
    /\ built = <<>>
    /\ writes = 0
    /\ last = None

\* what the constructor was given, for options object `ref` of heap (O, A)
GivenOf(O, A, ref) ==
    [sensitivity |-> IF IsArray(O[ref].dateSensitivity)
                     THEN A[O[ref].dateSensitivity.ref] ELSE <<>>,
     isArray |-> IsArray(O[ref].dateSensitivity),
     ds |-> O[ref].dateSensitivity,
     usage |-> O[ref].dateUsage]

\* the end of a call of the constructor: the heap as the constructor left
\* it, the instance when it returned, and the call as the last one
Constructed(new, given, options) ==
    /\ objs' = new.objs
    /\ arrs' = new.arrs
    /\ collators' = IF new.out.kind = "return"
                    THEN Append(collators, new.out.value) ELSE collators
    /\ built' = IF new.out.kind = "return"
                THEN Append(built, ConfigOf(new.objs, new.arrs, new.out.value,
                                            given.ds = VUndefined /\ given.usage = VUndefined))
                ELSE built
    /\ last' = [None EXCEPT !.op = "new", !.options = options, !.given = given,
                             !.out = new.out]
    /\ UNCHANGED <<tz, writes>>

\* new DateCollator( null, { dateSensitivity: ..., dateUsage: ... } )
NewLiteral ==
    /\ last.op = "none"
    /\ Len(objs) < MaxObjects
    /\ Len(collators) < MaxCollators
    /\ \E isArray \in BOOLEAN, du \in LifeUsages :
       \E ds \in (IF isArray THEN {VUndefined} ELSE LifeNonArrays),
          parts \in (IF isArray THEN SeqsUpTo(LifeParts, MaxLen) ELSE {<<>>}) :
            LET lit == Literal(isArray, ds, parts, du, objs, arrs)
            IN  Constructed(Constructor(VOptions(lit.ref), lit.objs, lit.arrs),
                            GivenOf(lit.objs, lit.arrs, lit.ref), lit.ref)

\* new DateCollator()
NewAbsent ==
    /\ last.op = "none"
    /\ Len(objs) < MaxObjects
    /\ Len(collators) < MaxCollators
    /\ Constructed(Constructor(VUndefined, objs, arrs),
                   [sensitivity |-> <<>>, isArray |-> FALSE, ds |-> VUndefined,
                    usage |-> VUndefined], 0)

\* new DateCollator( null, options ) with an options object used before
NewShared ==
    /\ last.op = "none"
    /\ Len(collators) < MaxCollators
    /\ \E ref \in 1..Len(objs) :
        /\ objs[ref].caller
        /\ Constructed(Constructor(VOptions(ref), objs, arrs), GivenOf(objs, arrs, ref),
                       ref)

\* the caller pushes an element onto the array an options object of its
\* own refers to
WritePush ==
    /\ last.op = "none"
    /\ writes < MaxWrites
    /\ \E ref \in 1..Len(objs), part \in LifeParts :
        /\ objs[ref].caller
        /\ IsArray(objs[ref].dateSensitivity)
        /\ arrs' = [arrs EXCEPT ![objs[ref].dateSensitivity.ref] = Append(@, part)]
    /\ writes' = writes + 1
    /\ UNCHANGED <<tz, objs, collators, built, last>>

\* the caller assigns options.dateUsage of an object of its own
WriteUsage ==
    /\ last.op = "none"
    /\ writes < MaxWrites
    /\ \E ref \in 1..Len(objs), du \in {VString("local"), VString("utc"), VString("gmt")} :
        /\ objs[ref].caller
        /\ ~objs[ref].frozen
        /\ objs[ref].dateUsage # du
        /\ objs' = [objs EXCEPT ![ref].dateUsage = du]
    /\ writes' = writes + 1
    /\ UNCHANGED <<tz, arrs, collators, built, last>>

\* the caller assigns options.dateSensitivity of an object of its own
WriteSensitivity ==
    /\ last.op = "none"
    /\ writes < MaxWrites
    /\ \E ref \in 1..Len(objs) :
        /\ objs[ref].caller
        /\ ~objs[ref].frozen
        /\ objs[ref].dateSensitivity # VString("year")
        /\ objs' = [objs EXCEPT ![ref].dateSensitivity = VString("year")]
    /\ writes' = writes + 1
    /\ UNCHANGED <<tz, arrs, collators, built, last>>

\* the caller passes an options object of its own to Object.freeze, which
\* freezes the object and not the array it refers to
Freeze ==
    /\ last.op = "none"
    /\ \E ref \in 1..Len(objs) :
        /\ objs[ref].caller
        /\ ~objs[ref].frozen
        /\ objs' = [objs EXCEPT ![ref].frozen = TRUE]
    /\ UNCHANGED <<tz, arrs, collators, built, writes, last>>

CompareSome ==
    \E c \in 1..Len(collators), l \in LifeValues, r \in LifeValues : Compare(c, l, r)

NextLife ==
    \/ NewLiteral
    \/ NewAbsent
    \/ NewShared
    \/ WritePush
    \/ WriteUsage
    \/ WriteSensitivity
    \/ Freeze
    \/ CompareSome
    \/ Discard

SpecLife == InitLife /\ [][NextLife]_vars

----------------------------------------------------------------------------
(* Claims about compare *)

IsCompare == last.op = "compare"
BothValid == IsValidDate(last.left) /\ IsValidDate(last.right)
Returned == last.out.kind = "return"
Config == built[last.c]

\* The component of a date for a part, as the table of the specification
\* gives it, in the view the usage selects.
Component(usage, part, z, t) ==
    LET v == IF usage = "local" THEN LocalTime(z, t) ELSE t
    IN  CASE part = "year" -> YearFromTime(v)
          [] part = "month" -> MonthFromTime(v)
          [] part = "day" -> DateFromTime(v)
          [] part = "weekday" -> WeekDay(v)
          [] part = "hour" -> HourFromTime(v)
          [] part = "minute" -> MinFromTime(v)
          [] part = "second" -> SecFromTime(v)
          [] part = "fractionalSecond" -> msFromTime(v)
          [] part = "dayPeriod" -> IF HourFromTime(v) < 12 THEN 0 ELSE 1
          [] part = "era" -> IF YearFromTime(v) < 0 THEN -1
                             ELSE IF YearFromTime(v) = 0 THEN 0 ELSE 1

\* the positions of the configured sequence at which the two dates differ
Differing(cfg, z, l, r) ==
    {i \in 1..Len(cfg.sensitivity) :
        Component(cfg.usage.s, cfg.sensitivity[i], z, l.t)
            # Component(cfg.usage.s, cfg.sensitivity[i], z, r.t)}

FirstOf(S) == CHOOSE i \in S : \A j \in S : i <= j

\* the sign of the difference at the first differing position, else 0
FirstDifference(cfg, z, l, r) ==
    LET d == Differing(cfg, z, l, r)
    IN  IF d = {} THEN 0
        ELSE Sign(Component(cfg.usage.s, cfg.sensitivity[FirstOf(d)], z, l.t)
                  - Component(cfg.usage.s, cfg.sensitivity[FirstOf(d)], z, r.t))

\* C1: for every configuration and every pair of valid dates, compare
\* returns the sign of the difference of the first configured part whose
\* components differ, and 0 when no configured part differs.
C1_FirstDifferingPart ==
    (IsCompare /\ BothValid) =>
        last.out = Return(FirstDifference(Config, tz, last.left, last.right))

\* C1's case: the first configured part is equal, a later one decides.
C1_Witness ==
    /\ IsCompare /\ BothValid /\ Returned
    /\ Differing(Config, tz, last.left, last.right) # {}
    /\ FirstOf(Differing(Config, tz, last.left, last.right)) > 1
    /\ last.out.value = -1

\* the difference before it is clamped
RawDifference ==
    Reduce(PartPairs(Config.usage.s, Config.sensitivity, tz, last.left.t, last.right.t), 0)

\* C2: whenever compare returns, it returns exactly -1, 0 or +1, whatever
\* the inputs and the size of the difference of the deciding part.
C2_ClampedResult ==
    (IsCompare /\ Returned) => last.out.value \in {-1, 0, 1}

\* C2's case: the deciding parts differ by more than one and +1 is returned.
C2_Witness ==
    /\ IsCompare /\ BothValid /\ Returned
    /\ RawDifference > 1
    /\ last.out.value = 1

\* left comes before right among a date (valid or not), null and undefined
\* in the order the claim gives: a date before null and undefined, null
\* before undefined
Before(l, r) ==
    \/ l.kind \in {"Date", "InvalidDate"} /\ r.kind \in {"null", "undefined"}
    \/ l.kind = "null" /\ r.kind = "undefined"

\* C3: with a side that is no valid date, a valid or an invalid date
\* compares below null and below undefined, null below undefined, each
\* swapped pair above, and null, undefined (an absent argument) and an
\* invalid date compare 0 with themselves.
C3_FallbackOrder ==
    IsCompare =>
        /\ Before(last.left, last.right) => Returned /\ last.out.value < 0
        /\ Before(last.right, last.left) => Returned /\ last.out.value > 0
        /\ (last.left = last.right /\ last.left.kind \in {"null", "undefined", "InvalidDate"})
              => Returned /\ last.out.value = 0

\* C3's case: a valid date was compared with null.
C3_Witness ==
    /\ IsCompare /\ Returned
    /\ last.left.kind = "Date" /\ last.right.kind = "null"
    /\ last.out.value = -1

\* C4 (as claimed): an invalid date compares below every valid date, and
\* every valid date above an invalid date.
C4_InvalidBelowValid ==
    IsCompare =>
        /\ (last.left.kind = "InvalidDate" /\ last.right.kind = "Date")
              => Returned /\ last.out.value < 0
        /\ (last.left.kind = "Date" /\ last.right.kind = "InvalidDate")
              => Returned /\ last.out.value > 0

\* the values of the four categories the order is claimed for
Ordered == ValidDates \cup {InvalidDate, Null, Undefined}

\* compare of the instance of the last call, on any two values
Result(l, r) == compareUnbound(objs[collators[last.c]], arrs, tz, l, r).value

\* C5 (as claimed): over valid dates, invalid dates, null and undefined the
\* results of one instance are transitive, and two values that compare 0
\* compare alike with every third.
C5_TotalOrder ==
    (IsCompare /\ last.left \in Ordered /\ last.right \in Ordered) =>
        \A v \in Ordered :
            /\ (last.out.value <= 0 /\ Result(last.right, v) <= 0)
                  => Result(last.left, v) <= 0
            /\ last.out.value = 0 => Result(last.left, v) = Result(last.right, v)

\* C6: for valid dates a and b, compare(a, b) is the opposite of
\* compare(b, a) on the same instance, and compare(a, a) is 0.
C6_Antisymmetry ==
    (IsCompare /\ BothValid) =>
        /\ Returned
        /\ last.out.value = -Sign(Result(last.right, last.left))
        /\ last.left = last.right => last.out.value = 0

\* C6's case: two different valid dates, the left one the greater.
C6_Witness ==
    /\ IsCompare /\ BothValid /\ Returned
    /\ last.left # last.right
    /\ last.out.value = 1
    /\ Result(last.right, last.left) = -1

\* the instance of the last call was constructed with no option given
IsDefault == Config.defaulted

\* C7 (as claimed): under the default configuration compare orders valid
\* dates as instants: below 0 exactly when the left instant is the earlier,
\* 0 exactly when the instants are the same.
C7_ChronologicalOrder ==
    (IsCompare /\ BothValid /\ IsDefault) =>
        /\ Returned
        /\ last.out.value < 0 <=> Earlier(last.left.t, last.right.t)
        /\ last.out.value = 0 <=> last.left.t = last.right.t

\* C7 (amended): under the default configuration, which is local usage
\* with the parts year, month, day, hour, minute, second, fractionalSecond,
\* compare orders valid dates by their local wall-clock readings (the
\* instant shifted by the local UTC offset in force at it); that is the
\* order of the instants for two dates with the same local UTC offset.
C7_LocalClockOrder ==
    (IsCompare /\ BothValid /\ IsDefault) =>
        LET l == LocalTime(tz, last.left.t)
            r == LocalTime(tz, last.right.t)
        IN  /\ Returned
            /\ Config.usage = VString("local")
            /\ Config.sensitivity
                  = <<"year", "month", "day", "hour", "minute", "second", "fractionalSecond">>
            /\ last.out.value < 0 <=> Earlier(l, r)
            /\ last.out.value = 0 <=> l = r
            /\ LocalTZA(tz, last.left.t) = LocalTZA(tz, last.right.t) =>
                  /\ last.out.value < 0 <=> Earlier(last.left.t, last.right.t)
                  /\ last.out.value = 0 <=> last.left.t = last.right.t

\* C7's case: two instants on either side of a change of the local UTC
\* offset with the same local reading compare 0.
C7_Witness ==
    /\ IsCompare /\ BothValid /\ IsDefault /\ Returned
    /\ LocalTZA(tz, last.left.t) # LocalTZA(tz, last.right.t)
    /\ last.left.t # last.right.t
    /\ last.out.value = 0

----------------------------------------------------------------------------
(* Claims about construction and the lifetime of an instance *)

IsNew == last.op = "new"

\* the first element of the array that is no DatePart, "" when there is none
FirstUnrecognized(a) ==
    IF \E i \in 1..Len(a) : a[i] \notin DateSensitivity
    THEN a[CHOOSE i \in 1..Len(a) :
              /\ a[i] \notin DateSensitivity
              /\ \A j \in 1..(i - 1) : a[j] \in DateSensitivity]
    ELSE ""


\* C8 (as claimed): constructing with an array that holds an element that
\* is no DatePart fails with the RangeError that cites the first such
\* element, and with no other error.
C8_RangeErrorCitesFirst ==
    (IsNew /\ last.given.isArray /\ FirstUnrecognized(last.given.sensitivity) # "") =>
        last.out = Throw("RangeError", FirstUnrecognized(last.given.sensitivity))

\* C9 (as claimed): constructing with a dateSensitivity that is given and
\* is no array fails with the TypeError; an instance has the default
\* sequence only when no dateSensitivity was given.
C9_NonSequenceTypeError ==
    (IsNew /\ ~last.given.isArray /\ last.given.ds # VUndefined) =>
        last.out.kind = "throw" /\ last.out.error = "TypeError"

\* compare of an instance as it was constructed
ResultAsBuilt(c, l, r) ==
    compareUnbound([dateSensitivity |-> VArray(1), dateUsage |-> built[c].usage,
                    caller |-> FALSE, frozen |-> FALSE],
                   <<built[c].sensitivity>>, tz, l, r)

\* C10 (as claimed): whatever happens after a construction that succeeded,
\* compare of the instance gives what it gave right after construction for
\* the same two values, and the configuration is still valid: an array of
\* DateParts and a usage of local or utc.
C10_ConfigurationFixed ==
    \A c \in 1..Len(collators) :
        LET o == objs[collators[c]]
        IN  /\ \A l \in LifeValues, r \in LifeValues :
                  compareUnbound(o, arrs, tz, l, r) = ResultAsBuilt(c, l, r)
            /\ IsArray(o.dateSensitivity)
            /\ \A i \in 1..Len(arrs[o.dateSensitivity.ref]) :
                  arrs[o.dateSensitivity.ref][i] \in DateSensitivity
            /\ o.dateUsage.k = "string" /\ o.dateUsage.s \in DateUsage

----------------------------------------------------------------------------
(* Claims about errors of compare and about the UTC usage *)

\* C11 (as claimed): compare of an instance that was constructed never
\* throws: whatever the two values, an object without a conversion to a
\* string included, the call returns a value.
C11_CompareNeverThrows ==
    IsCompare => Returned

IsUtc == Config.usage = VString("utc")

\* the parts of the configured sequence
Parts == {Config.sensitivity[i] : i \in 1..Len(Config.sensitivity)}

TimeParts == {"hour", "minute", "second", "fractionalSecond"}
DateParts == {"year", "month", "day"}

\* every configured part of the two dates of the last call agrees in the
\* view of the usage
Agree(usage) ==
    \A part \in Parts :
        Component(usage, part, tz, last.left.t) = Component(usage, part, tz, last.right.t)

\* C12 (as claimed): with usage utc, for parts of the time of day (hour,
\* minute, second, fractionalSecond) or of the calendar day (year, month,
\* day), two valid dates whose configured parts agree in the local
\* wall-clock view compare 0, whatever their local UTC offsets.
C12_UtcAgreesWithLocalView ==
    (IsCompare /\ BothValid /\ IsUtc /\ Parts # {}
        /\ (Parts \subseteq TimeParts \/ Parts \subseteq DateParts)
        /\ Agree("local"))
    => last.out = Return(0)

\* C12 (amended): with usage utc, two valid dates compare 0 whenever the
\* configured parts agree in the UTC view; for parts of the time of day
\* that include hour and minute, two dates with the same local UTC offset
\* whose configured parts agree in the local view compare 0, on whatever
\* days or years they lie.
C12_UtcView ==
    (IsCompare /\ BothValid /\ IsUtc) =>
        /\ Returned
        /\ Agree("utc") => last.out.value = 0
        /\ ( /\ {"hour", "minute"} \subseteq Parts
             /\ Parts \subseteq TimeParts
             /\ LocalTZA(tz, last.left.t) = LocalTZA(tz, last.right.t)
             /\ Agree("local") )
           => last.out.value = 0

\* C12's case: usage utc with hour and minute, two dates of different
\* years with the same local hour and minute compare 0.
C12_Witness ==
    /\ IsCompare /\ BothValid /\ IsUtc /\ Returned
    /\ Parts = {"hour", "minute"}
    /\ YearFromTime(LocalTime(tz, last.left.t)) # YearFromTime(LocalTime(tz, last.right.t))
    /\ Agree("local")
    /\ last.out.value = 0

----------------------------------------------------------------------------
(* Claims about the effects of construction *)

\* the outcome of the last construction had its options object been
\* writable
OutcomeIfWritable ==
    Constructor(VOptions(last.options),
                [objs EXCEPT ![last.options].frozen = FALSE], arrs).out

\* C13 (as claimed): after a construction, returned or thrown, the options
\* object the caller passed has the dateSensitivity and the dateUsage it
\* had before, the array of dateSensitivity has the elements it had, and
\* a frozen options object gives the outcome a writable one gives.
C13_ConstructionWritesNothing ==
    (IsNew /\ last.options # 0) =>
        LET o == objs[last.options]
        IN  /\ o.dateSensitivity = last.given.ds
            /\ o.dateUsage = last.given.usage
            /\ last.given.isArray => arrs[o.dateSensitivity.ref] = last.given.sensitivity
            /\ o.frozen => last.out = OutcomeIfWritable

====
